---- MODULE Spec2Model ----
(***************************************************************************)
(* Model of common/data/beer_process.py: rescale() and the line loop of    *)
(* process_dataset(), which turns a line-delimited JSON review file into   *)
(* three tables (data, users, items) written as CSV after the loop.        *)
(*                                                                         *)
(* Python floats are modelled as binary floating point numbers with a      *)
(* significand of MantBits bits and round-to-nearest-even; every number is *)
(* held exactly as a reduced fraction <<numerator, denominator>>, with     *)
(* <<1, 0>>, <<-1, 0>> and <<0, 0>> for inf, -inf and nan.  Strings that   *)
(* the code splits and parses are sequences of one-character strings.      *)
(*                                                                         *)
(* The second part models the batch loop of prompting() in                 *)
(* llms_baseline/prompting.py: which batches are followed by an            *)
(* intermediate evaluation and what is written to the log file.            *)
(***************************************************************************)
EXTENDS Integers, Sequences, FiniteSets, TLC

\* ------------------------------------------------------------------ bounds
\* Width of the significand of a float (53 in CPython).
MantBits == 3
\* Longest input file, in lines.
MaxLines == 2
\* Largest --batch_size, largest --evaluate_every and largest dataset given
\* to prompting().
MaxBatchSize == 3
MaxEvaluateEvery == 3
MaxSamples == 6

\* --------------------------------------------------------- exact fractions
RECURSIVE GCD(_, _)
GCD(a, b) == IF b = 0 THEN a ELSE GCD(b, a % b)

Abs(n) == IF n < 0 THEN -n ELSE n

\* The fraction n/d in lowest terms with a denominator >= 0.
Rat(n, d) ==
    IF n = 0 /\ d = 0 THEN <<0, 0>>
    ELSE LET g == GCD(Abs(n), Abs(d))
             s == IF d < 0 THEN -1 ELSE 1
         IN  <<(s * n) \div g, (s * d) \div g>>

NaN == <<0, 0>>
Inf == <<1, 0>>
IsFinite(x) == x[2] # 0

RAdd(x, y) == Rat(x[1] * y[2] + y[1] * x[2], x[2] * y[2])
RSub(x, y) == Rat(x[1] * y[2] - y[1] * x[2], x[2] * y[2])
RMul(x, y) == Rat(x[1] * y[1], x[2] * y[2])
RDiv(x, y) == Rat(x[1] * y[2], x[2] * y[1])
\* x <= y; false when either is nan.
RLe(x, y) == x # NaN /\ y # NaN /\ x[1] * y[2] <= y[1] * x[2]
Zero == Rat(0, 1)

RECURSIVE Pow2(_)
Pow2(k) == IF k = 0 THEN 1 ELSE 2 * Pow2(k - 1)

\* ------------------------------------------------------------------ floats
\* Scale a/d (a, d > 0) by powers of two until it lies in
\* [2^(MantBits-1), 2^MantBits); e counts the binary exponent.
RECURSIVE Normalize(_, _, _)
Normalize(a, d, e) ==
    IF a >= Pow2(MantBits) * d THEN Normalize(a, 2 * d, e + 1)
    ELSE IF a < Pow2(MantBits - 1) * d THEN Normalize(2 * a, d, e - 1)
    ELSE <<a, d, e>>

\* Round a/d >= 0 to an integer, ties to even.
RoundHalfEven(a, d) ==
    LET m == a \div d
        r == a - m * d
    IN  IF 2 * r > d THEN m + 1
        ELSE IF 2 * r = d THEN m + (m % 2)
        ELSE m

\* The float nearest to the fraction q.
Fl(q) ==
    IF ~IsFinite(q) THEN q
    ELSE IF q[1] = 0 THEN Zero
    ELSE LET s  == IF q[1] < 0 THEN -1 ELSE 1
             nz == Normalize(Abs(q[1]), q[2], 0)
             m  == RoundHalfEven(nz[1], nz[2])
             e  == nz[3]
         IN  IF e >= 0 THEN Rat(s * m * Pow2(e), 1)
             ELSE Rat(s * m, Pow2(-e))

FAdd(x, y) == Fl(RAdd(x, y))
FSub(x, y) == Fl(RSub(x, y))
FMul(x, y) == Fl(RMul(x, y))

\* Results of operations that may raise: a value, or the exception raised.
Ok(v) == [ok |-> TRUE, val |-> v, exc |-> "none"]
Raise(e) == [ok |-> FALSE, val |-> Zero, exc |-> e]

\* Variant: IEEE division, which yields inf or nan for a zero divisor.
FDivIEEE(x, y) ==
    IF y[1] = 0 THEN Ok(IF x[1] = 0 THEN NaN ELSE Inf)
    ELSE Ok(Fl(RDiv(x, y)))

\* x / y on floats: raises ZeroDivisionError when y is zero.
FDiv(x, y) ==
    IF y[1] = 0 THEN Raise("ZeroDivisionError")
    ELSE Ok(Fl(RDiv(x, y)))

\* rescale(x, a, b, c, d) = c + (d - c) * ((x - a) / (b - a))
rescale(x, a, b, c, d) ==
    LET q == FDiv(FSub(x, a), FSub(b, a))
    IN  IF ~q.ok THEN q
        ELSE Ok(FAdd(c, FMul(FSub(d, c), q.val)))

\* ----------------------------------------------------------------- strings
\* A string is a sequence of one-character strings.
Digits == <<"0", "1", "2", "3", "4", "5", "6", "7", "8", "9">>

IsDigit(ch) == \E i \in 1..Len(Digits) : Digits[i] = ch

DigitVal(ch) == (CHOOSE i \in 1..Len(Digits) : Digits[i] = ch) - 1

\* str.split(sep): the pieces of s between the occurrences of sep.
RECURSIVE split(_, _)
split(s, sep) ==
    IF \A i \in 1..Len(s) : s[i] # sep THEN <<s>>
    ELSE LET k == CHOOSE i \in 1..Len(s) :
                      s[i] = sep /\ \A j \in 1..(i - 1) : s[j] # sep
         IN  <<SubSeq(s, 1, k - 1)>> \o split(SubSeq(s, k + 1, Len(s)), sep)

\* The integer a string of digits writes.
RECURSIVE DecimalValue(_)
DecimalValue(s) ==
    IF s = <<>> THEN 0
    ELSE 10 * DecimalValue(SubSeq(s, 1, Len(s) - 1)) + DigitVal(s[Len(s)])

\* float(s) for strings over digits and other characters: the nearest float
\* to the number written, ValueError for the empty string or a non-digit.
float(s) ==
    IF s = <<>> \/ \E i \in 1..Len(s) : ~IsDigit(s[i]) THEN Raise("ValueError")
    ELSE Ok(Fl(Rat(DecimalValue(s), 1)))

\* --------------------------------------------------------- process_dataset
\* columns: canonical field -> key of the source record.
columns ==
    [user_id    |-> "beer/brewerId",
     user_name  |-> "review/profileName",
     item_id    |-> "beer/beerId",
     item_name  |-> "beer/name",
     ABV        |-> "beer/ABV",
     style      |-> "beer/style",
     review     |-> "review/text",
     timestamp  |-> "review/time",
     rating     |-> "review/overall",
     appearance |-> "review/appearance",
     aroma      |-> "review/aroma",
     palate     |-> "review/palate",
     taste      |-> "review/taste"]

aspects == <<"appearance", "aroma", "palate", "taste">>

SourceKeys == {columns[c] : c \in DOMAIN columns}

Has(row, field) == columns[field] \in DOMAIN row

\* json.loads(line.strip()): a line that is blank once stripped and a
\* malformed line raise; any other line decodes to its value, a function
\* from keys to values (the empty function for {} and the other falsy values).
json_loads(line) ==
    IF line.kind \in {"blank", "malformed"}
    THEN [ok |-> FALSE, exc |-> "JSONDecodeError", row |-> line.row]
    ELSE [ok |-> TRUE, exc |-> "none", row |-> line.row]


\* Variant: a missing key is read with a default, the lowest rating.
rescale_field_default(row, field, lo, hi) ==
    IF ~Has(row, field) THEN Ok(lo)
    ELSE LET parts == split(row[columns[field]], "/")
             x == float(parts[1])
         IN  IF ~x.ok THEN x
             ELSE IF Len(parts) < 2 THEN Raise("IndexError")
             ELSE LET b == float(parts[2])
                  IN  IF ~b.ok THEN b
                      ELSE rescale(x.val, Zero, b.val, lo, hi)

\* rescale(float(row[columns[field]].split("/")[0]), 0,
\*         float(row[columns[field]].split("/")[1]), lo, hi)
\* with Python's left-to-right evaluation of the arguments.
rescale_field(row, field, lo, hi) ==
    IF ~Has(row, field) THEN Raise("KeyError")
    ELSE LET parts == split(row[columns[field]], "/")
             x == float(parts[1])
         IN  IF ~x.ok THEN x
             ELSE IF Len(parts) < 2 THEN Raise("IndexError")
             ELSE LET b == float(parts[2])
                  IN  IF ~b.ok THEN b
                      ELSE rescale(x.val, Zero, b.val, lo, hi)

user_row(row) ==
    [user_id |-> row[columns.user_id], user_name |-> row[columns.user_name]]

item_row(row) ==
    [item_id |-> row[columns.item_id],
     name |-> row[columns.item_name],
     style |-> row[columns.style],
     abv |-> row[columns.ABV],
     description |-> <<row[columns.item_name], " ; ", "Style: ",
                       row[columns.style], " ", "ABV: ", row[columns.ABV]>>]

sample_row(row, rating, asp) ==
    [user_id |-> row[columns.user_id],
     item_id |-> row[columns.item_id],
     timestamp |-> row[columns.timestamp],
     review |-> row[columns.review],
     rating |-> rating,
     appearance |-> asp[1],
     aroma |-> asp[2],
     palate |-> asp[3],
     taste |-> asp[4]]

\* bool(row): a decoded value is falsy when it is empty.
bool(row) == DOMAIN row # {}

\* The tables being built, and the exception that ended the iteration.
Tables(u, i, d, e) == [users |-> u, items |-> i, data |-> d, exc |-> e]

\* Variant: a user already in the list is not appended again.
append_user_dedup(t, row) ==
    IF ~(Has(row, "user_id") /\ Has(row, "user_name"))
    THEN [t EXCEPT !.exc = "KeyError"]
    ELSE IF \E k \in 1..Len(t.users) :
                t.users[k].user_id = row[columns.user_id]
    THEN t
    ELSE [t EXCEPT !.users = Append(@, user_row(row))]

\* users.append(dict(user_id=..., user_name=...))
append_user(t, row) ==
    IF ~(Has(row, "user_id") /\ Has(row, "user_name"))
    THEN [t EXCEPT !.exc = "KeyError"]
    ELSE [t EXCEPT !.users = Append(@, user_row(row))]

\* Variant: the item is inserted at the head of the list.
append_item_front(t, row) ==
    IF ~(Has(row, "item_id") /\ Has(row, "item_name") /\ Has(row, "style")
         /\ Has(row, "ABV"))
    THEN [t EXCEPT !.exc = "KeyError"]
    ELSE [t EXCEPT !.items = <<item_row(row)>> \o @]

\* items.append(dict(item_id=..., name=..., style=..., abv=..., description=...))
append_item(t, row) ==
    IF ~(Has(row, "item_id") /\ Has(row, "item_name") /\ Has(row, "style")
         /\ Has(row, "ABV"))
    THEN [t EXCEPT !.exc = "KeyError"]
    ELSE [t EXCEPT !.items = Append(@, item_row(row))]

\* The first exception among the results rs, "none" if there is none.
FirstExc(rs) ==
    IF \A i \in 1..Len(rs) : rs[i].ok THEN "none"
    ELSE rs[CHOOSE i \in 1..Len(rs) :
                ~rs[i].ok /\ \A j \in 1..(i - 1) : rs[j].ok].exc

\* sample = dict(...); sample["rating"] = rescale(...); for aspect in
\* aspects: sample[aspect] = rescale(...); data.append(sample)
append_sample(t, row, a) ==
    IF ~(Has(row, "timestamp") /\ Has(row, "review"))
    THEN [t EXCEPT !.exc = "KeyError"]
    ELSE LET r == rescale_field(row, "rating", a.min_rating, a.max_rating)
             asp == [k \in 1..Len(aspects) |->
                        rescale_field(row, aspects[k], a.aspect_min_rating,
                                      a.aspect_max_rating)]
         IN  IF ~r.ok THEN [t EXCEPT !.exc = r.exc]
             ELSE IF FirstExc(asp) # "none" THEN [t EXCEPT !.exc = FirstExc(asp)]
             ELSE [t EXCEPT !.data =
                       Append(@, sample_row(row, r.val,
                                            [k \in 1..Len(aspects) |-> asp[k].val]))]

\* One iteration of "for line in fp": the tables after it, with the
\* exception it raised, if any.
iteration(t, line, a) ==
    LET j == json_loads(line)
    IN  IF ~j.ok THEN [t EXCEPT !.exc = j.exc]
        ELSE IF ~bool(j.row) THEN t
        ELSE LET t1 == append_user(t, j.row)
             IN  IF t1.exc # "none" THEN t1
                 ELSE LET t2 == append_item(t1, j.row)
                      IN  IF t2.exc # "none" THEN t2
                          ELSE append_sample(t2, j.row, a)

\* ------------------------------------------------------------------ inputs
\* The (user, item) pairs of the reviews of the input.
Reviewed == {<<"u1", "i1">>, <<"u2", "i1">>, <<"u2", "i2">>}

\* Rating strings "n/d" with 0 <= n <= d and d > 0.
GoodRatings ==
    {<<"0", "/", "5">>, <<"3", "/", "4">>, <<"5", "/", "5">>,
     <<"1", "3", "/", "2", "0">>}

\* Other strings a rating field may hold.
OddRatings ==
    {<<"6", "/", "5">>, <<"4", "/", "5", "/", "6">>, <<"4">>,
     <<"x", "/", "5">>, <<"4", "/", "x">>, <<"/", "5">>,
     <<"4", "/", "0">>, <<"0", "/", "0">>}

\* The fields that hold them in the input.
OddFields == {"rating", "appearance", "taste"}

\* A decoded record with every key: the overall rating r, every aspect s.
Record(u, i, r, s) ==
    [k \in SourceKeys |->
        IF k = columns.user_id THEN <<u>>
        ELSE IF k = columns.item_id THEN <<i>>
        ELSE IF k = columns.rating THEN r
        ELSE IF k \in {columns[aspects[n]] : n \in 1..Len(aspects)} THEN s
        ELSE <<"t">>]

Without(row, key) == [k \in DOMAIN row \ {key} |-> row[k]]

With(row, key, v) == [k \in DOMAIN row |-> IF k = key THEN v ELSE row[k]]

Json(row) == [kind |-> "json", row |-> row]

EmptyRow == [k \in {} |-> <<>>]

BlankLine == [kind |-> "blank", row |-> EmptyRow]
MalformedLine == [kind |-> "malformed", row |-> EmptyRow]
EmptyLine == Json(EmptyRow)

TypicalRating == <<"3", "/", "4">>

\* The lines an input file is made of.
InputLines ==
    {BlankLine, MalformedLine, EmptyLine}
    \cup {Json(Record(p[1], p[2], r, TypicalRating)) :
              p \in Reviewed, r \in GoodRatings}
    \cup {Json(Record("u1", "i1", TypicalRating, s)) : s \in GoodRatings}
    \cup {Json(Without(Record("u1", "i1", TypicalRating, TypicalRating), k)) :
              k \in SourceKeys}
    \cup {Json(With(Record("u1", "i1", TypicalRating, TypicalRating),
                    columns[f], s)) : f \in OddFields, s \in OddRatings}

\* --min_rating, --max_rating, --aspect_min_rating, --aspect_max_rating,
\* each read by argparse with type=float.
Args(lo, hi, alo, ahi) ==
    [min_rating |-> Fl(lo), max_rating |-> Fl(hi),
     aspect_min_rating |-> Fl(alo), aspect_max_rating |-> Fl(ahi)]

DefaultArgs == Args(Rat(1, 1), Rat(5, 1), Rat(1, 1), Rat(5, 1))

ArgsSet ==
    {DefaultArgs,
     Args(Rat(3, 4), Rat(7, 2), Rat(0, 1), Rat(10, 1)),
     Args(Rat(0, 1), Rat(1, 1), Rat(3, 4), Rat(7, 2))}

\* ------------------------------------------------------------------- state
VARIABLES
    args,     \* the parsed command line
    pc,       \* where process_dataset is
    fp,       \* the lines read from the dataset file so far
    users,    \* the list users
    items,    \* the list items
    data,     \* the list data
    files,    \* the files written in the output directory, by name
    exc,      \* the exception that ended the run, "none" if none
    p_args,       \* prompting(): verbose, batch_size, evaluate_every, targets
    dataloader,   \* prompting(): the number of samples the dataloader yields
    p_pc,         \* prompting(): where it is ("idle" while it does not run)
    batch_index,  \* prompting(): the index enumerate() gives the next batch
    loop_i,       \* prompting(): the local variable i
    predictions,  \* prompting(): the length of the prediction lists
    evaluated,    \* prompting(): the batches followed by an evaluate_fn call
    log_file      \* prompting(): what was appended to the log file

dvars == <<args, pc, fp, users, items, data, files, exc>>

pvars == <<p_args, dataloader, p_pc, batch_index, loop_i, predictions,
           evaluated, log_file>>

vars == <<dvars, pvars>>

\* prompting() before it is called, with the defaults of the command line.
PromptingIdle ==
    /\ p_args = [verbose |-> TRUE, batch_size |-> 16, evaluate_every |-> 10,
                 target |-> TRUE]
    /\ dataloader = 0
    /\ p_pc = "idle"
    /\ batch_index = 0
    /\ loop_i = 0
    /\ predictions = 0
    /\ evaluated = <<>>
    /\ log_file = <<>>

Init ==
    /\ args \in ArgsSet
    /\ pc = "loop"
    /\ fp = <<>>
    /\ users = <<>>
    /\ items = <<>>
    /\ data = <<>>
    /\ files = [n \in {} |-> <<>>]
    /\ exc = "none"
    /\ PromptingIdle

\* One turn of the loop over the lines of the file.
Iteration ==
    /\ pc = "loop"
    /\ Len(fp) < MaxLines
    /\ \E line \in InputLines :
          \E t \in {iteration(Tables(users, items, data, "none"), line, args)} :
              /\ fp' = Append(fp, line)
              /\ users' = t.users
              /\ items' = t.items
              /\ data' = t.data
              /\ exc' = t.exc
              /\ pc' = IF t.exc = "none" THEN "loop" ELSE "aborted"
    /\ UNCHANGED <<args, files, pvars>>

\* The file is exhausted: the loop ends and the three frames are built.
EndOfFile ==
    /\ pc = "loop"
    /\ pc' = "data_to_csv"
    /\ UNCHANGED <<args, fp, users, items, data, files, exc, pvars>>

\* df.to_csv(path)
to_csv(fs, name, rows) ==
    [n \in DOMAIN fs \cup {name} |-> IF n = name THEN rows ELSE fs[n]]

\* Variant: data.csv is rewritten while the lines are still being read.
DataToCsvInLoop ==
    /\ pc = "loop"
    /\ files' = to_csv(files, "data.csv", data)
    /\ UNCHANGED <<args, pc, fp, users, items, data, exc, pvars>>

DataToCsv ==
    /\ pc = "data_to_csv"
    /\ files' = to_csv(files, "data.csv", data)
    /\ pc' = "users_to_csv"
    /\ UNCHANGED <<args, fp, users, items, data, exc, pvars>>

UsersToCsv ==
    /\ pc = "users_to_csv"
    /\ files' = to_csv(files, "users.csv", users)
    /\ pc' = "items_to_csv"
    /\ UNCHANGED <<args, fp, users, items, data, exc, pvars>>

\* The last table is written; what follows in process_dataset (the verbose
\* print and the plots) reads the frames and changes neither them nor the
\* three files.
ItemsToCsv ==
    /\ pc = "items_to_csv"
    /\ files' = to_csv(files, "items.csv", items)
    /\ pc' = "done"
    /\ UNCHANGED <<args, fp, users, items, data, exc, pvars>>

\* A to_csv call fails (the disk is full, the path is not writable).
ToCsvFails ==
    /\ pc \in {"data_to_csv", "users_to_csv", "items_to_csv"}
    /\ exc' = "OSError"
    /\ pc' = "aborted"
    /\ UNCHANGED <<args, fp, users, items, data, files, pvars>>

Next ==
    \/ Iteration
    \/ EndOfFile
    \/ DataToCsv
    \/ UsersToCsv
    \/ ItemsToCsv
    \/ ToCsvFails

Spec == Init /\ [][Next]_vars

\* ---------------------------------------------------- vocabulary of claims
InputErrors ==
    {"JSONDecodeError", "KeyError", "IndexError", "ValueError",
     "ZeroDivisionError"}

TableFiles == {"data.csv", "users.csv", "items.csv"}

AllFields == {"rating", "appearance", "aroma", "palate", "taste"}

\* The target interval the code rescales a field to.
Lo(f) == IF f = "rating" THEN args.min_rating ELSE args.aspect_min_rating
Hi(f) == IF f = "rating" THEN args.max_rating ELSE args.aspect_max_rating

IsEmptyLine(line) == line.kind = "json" /\ DOMAIN line.row = {}
IsNonEmptyLine(line) == ~IsEmptyLine(line)
IsRecord(line) == line.kind = "json" /\ DOMAIN line.row # {}

\* The lines read so far that do not decode to an empty structure.
NonEmptyLines == SelectSeq(fp, IsNonEmptyLine)
\* The non-empty records decoded so far, in input order.
Records == SelectSeq(fp, IsRecord)

\* The raw string of field f in the record behind the k-th row of data.
Raw(k, f) == Records[k].row[columns[f]]

IsNumber(s) == s # <<>> /\ \A i \in 1..Len(s) : IsDigit(s[i])
\* "n/d": exactly one '/', a number on either side.
IsFraction(s) ==
    /\ Len(split(s, "/")) = 2
    /\ IsNumber(split(s, "/")[1])
    /\ IsNumber(split(s, "/")[2])
Num(s) == DecimalValue(split(s, "/")[1])
Den(s) == DecimalValue(split(s, "/")[2])
\* "n/d" with 0 <= n <= d and d > 0.
InRange(s) == IsFraction(s) /\ 0 <= Num(s) /\ Num(s) <= Den(s) /\ Den(s) > 0
\* A string whose denominator, the second piece, is zero.
ZeroDenominator(s) ==
    /\ Len(split(s, "/")) >= 2
    /\ IsNumber(split(s, "/")[2])
    /\ Den(s) = 0

Within(v, lo, hi) == RLe(lo, v) /\ RLe(v, hi)

\* ------------------------------------------------------------------ claims
\* C1: for every rating string "n/d" with 0 <= n <= d, d > 0 and every
\* target interval, the rescaled value lies within [target_min, target_max],
\* and for a fixed d and interval it is non-decreasing in n.
C1_RescaleWithinAndMonotonic ==
    /\ \A k \in 1..Len(data) : \A f \in AllFields :
          InRange(Raw(k, f)) => Within(data[k][f], Lo(f), Hi(f))
    /\ \A k1, k2 \in 1..Len(data) : \A f1, f2 \in AllFields :
          (/\ InRange(Raw(k1, f1)) /\ InRange(Raw(k2, f2))
           /\ Lo(f1) = Lo(f2) /\ Hi(f1) = Hi(f2)
           /\ Den(Raw(k1, f1)) = Den(Raw(k2, f2))
           /\ Num(Raw(k1, f1)) <= Num(Raw(k2, f2)))
          => RLe(data[k1][f1], data[k2][f2])

\* C2: rescaling "0/d" yields exactly target_min and rescaling "d/d" yields
\* exactly target_max, for every d > 0 and every target interval.
C2_EndpointsExact ==
    \A k \in 1..Len(data) : \A f \in AllFields :
        InRange(Raw(k, f)) =>
            /\ Num(Raw(k, f)) = 0 => data[k][f] = Lo(f)
            /\ Num(Raw(k, f)) = Den(Raw(k, f)) => data[k][f] = Hi(f)

\* C3: every row appended to data has its rating within
\* [min_rating, max_rating] and each aspect within
\* [aspect_min_rating, aspect_max_rating], whatever its rating strings carry.
C3_RowsWithinIntervals ==
    \A k \in 1..Len(data) :
        /\ Within(data[k].rating, args.min_rating, args.max_rating)
        /\ \A n \in 1..Len(aspects) :
              Within(data[k][aspects[n]], args.aspect_min_rating,
                     args.aspect_max_rating)

\* C4: in a run that completes, each of the three tables has exactly as
\* many rows as there are input lines that do not decode to an empty
\* structure; an empty line contributes no row to any table.
C4_RowCounts ==
    /\ pc # "aborted" =>
          /\ Len(data) = Len(NonEmptyLines)
          /\ Len(users) = Len(NonEmptyLines)
          /\ Len(items) = Len(NonEmptyLines)
    /\ pc = "done" =>
          /\ DOMAIN files = TableFiles
          /\ \A n \in TableFiles : Len(files[n]) = Len(NonEmptyLines)

\* A completed run over an empty line and a record, in either order.
C4_Witness ==
    /\ pc = "done"
    /\ Len(fp) = 2
    /\ \E k \in 1..2 : IsEmptyLine(fp[k])
    /\ Len(files["data.csv"]) = 1

IsPrefix(s, t) == Len(s) <= Len(t) /\ SubSeq(t, 1, Len(s)) = s

\* The k-th row of each table comes from the k-th record of the input.
Aligned ==
    /\ Len(users) = Len(data)
    /\ Len(items) = Len(data)
    /\ \A k \in 1..Len(data) :
          /\ users[k] = user_row(Records[k].row)
          /\ items[k] = item_row(Records[k].row)
          /\ data[k].user_id = users[k].user_id
          /\ data[k].item_id = items[k].item_id
          /\ data[k].user_id = Records[k].row[columns.user_id]
          /\ data[k].item_id = Records[k].row[columns.item_id]

\* C5: the three tables are aligned and in input order: after any number
\* of processed lines they have the same length, their k-th rows come from
\* the k-th accepted line, and rows are only ever appended.
C5_AlignedInOrder ==
    /\ [](pc # "aborted" => Aligned)
    /\ [][/\ IsPrefix(users, users')
          /\ IsPrefix(items, items')
          /\ IsPrefix(data, data')]_vars

\* Two rows from different users and items, written out.
C5_Witness ==
    /\ pc = "done"
    /\ Len(data) = 2
    /\ data[1].user_id # data[2].user_id
    /\ data[1].item_id # data[2].item_id

\* C6: a run that aborts on an input line has written none of the three
\* files; files are written only once the loop over the input has ended.
C6_AllOrNothing ==
    /\ exc \in InputErrors => DOMAIN files = {}
    /\ DOMAIN files # {} => pc \in {"users_to_csv", "items_to_csv", "done", "aborted"}

\* A run that aborts on its second line, with a row already in the tables.
C6_Witness ==
    /\ pc = "aborted"
    /\ exc \in InputErrors
    /\ Len(data) = 1
    /\ DOMAIN files = {}

\* C7: a line that is empty once stripped is skipped: it does not abort
\* the run and adds no row.
C7_BlankLineSkipped ==
    \A k \in 1..Len(fp) :
        fp[k].kind = "blank" =>
            ~(k = Len(fp) /\ exc \in InputErrors)

\* C8: a rating string without exactly one '/' or with a non-numeric side
\* makes its line fail with a format error; none is turned into a rating.
C8_MalformedRatingRejected ==
    /\ \A k \in 1..Len(data) : \A f \in AllFields : IsFraction(Raw(k, f))
    /\ \A k \in 1..Len(Records) :
          (/\ SourceKeys \subseteq DOMAIN Records[k].row
           /\ \E f \in AllFields : ~IsFraction(Records[k].row[columns[f]]))
          => /\ k = Len(Records)
             /\ exc \in {"IndexError", "ValueError"}

\* C9: a rating string with a zero denominator aborts the run at its line,
\* and no row of data ever holds a nan or an infinite value.
C9_ZeroDenominatorRejected ==
    /\ \A k \in 1..Len(Records) :
          (\E f \in AllFields :
              /\ Has(Records[k].row, f)
              /\ ZeroDenominator(Records[k].row[columns[f]]))
          => /\ k = Len(Records)
             /\ pc = "aborted"
             /\ exc \in InputErrors
             /\ Len(data) = k - 1
    /\ \A k \in 1..Len(data) : \A f \in AllFields : IsFinite(data[k][f])

\* A run that has one row and then divides by a zero denominator.
C9_Witness ==
    /\ pc = "aborted"
    /\ exc = "ZeroDivisionError"
    /\ Len(data) = 1
    /\ \E f \in AllFields : ZeroDenominator(fp[Len(fp)].row[columns[f]])

\* The rating strings of the record that are present can all be rescaled.
RatingsAccepted(row) ==
    \A f \in AllFields :
        Has(row, f) => rescale_field(row, f, Lo(f), Hi(f)).ok

\* C10: a non-empty record that lacks a required source key makes the run
\* abort with a missing-key error; no default is substituted and no row of
\* data is produced for it.
C10_MissingKeyAborts ==
    \A k \in 1..Len(Records) :
        (/\ ~(SourceKeys \subseteq DOMAIN Records[k].row)
         /\ RatingsAccepted(Records[k].row))
        => /\ k = Len(Records)
           /\ pc = "aborted"
           /\ exc = "KeyError"
           /\ Len(data) = k - 1

\* A run that has one row and then meets a record without its overall
\* rating, after the user and the item of that record were appended.
C10_Witness ==
    /\ pc = "aborted"
    /\ exc = "KeyError"
    /\ Len(data) = 1
    /\ Len(users) = 2
    /\ columns.rating \notin DOMAIN fp[Len(fp)].row

\* --------------------------------------------------------------- prompting
Min(a, b) == IF a <= b THEN a ELSE b

\* The command lines prompting() is run with.
PromptArgsSet ==
    [verbose : BOOLEAN, batch_size : 1..MaxBatchSize,
     evaluate_every : 1..MaxEvaluateEvery, target : BOOLEAN]

\* len(outputs) for batch b of DataLoader(dataset, batch_size=...): full
\* batches, then the samples that remain.
BatchLen(b) == Min(p_args.batch_size, dataloader - b * p_args.batch_size)

\* The value of i after "if args.verbose and i == 0: ... for i in
\* range(len(outputs)): ...": the inner loop rebinds i, leaving the last
\* index of outputs in it.
i_after_examples(i, n) ==
    IF p_args.verbose /\ i = 0 /\ n > 0 THEN n - 1 ELSE i

InitPrompting ==
    /\ args = DefaultArgs
    /\ pc = "loop"
    /\ fp = <<>>
    /\ users = <<>>
    /\ items = <<>>
    /\ data = <<>>
    /\ files = [n \in {} |-> <<>>]
    /\ exc = "none"
    /\ p_args \in PromptArgsSet
    /\ dataloader \in 0..MaxSamples
    /\ p_pc = "loop"
    /\ batch_index = 0
    /\ loop_i = 0
    /\ predictions = 0
    /\ evaluated = <<>>
    /\ log_file = <<>>

\* One turn of "for i, batch in enumerate(dataloader)".
PromptBatch ==
    /\ p_pc = "loop"
    /\ batch_index * p_args.batch_size < dataloader
    /\ \E n \in {BatchLen(batch_index)} :
       \E i \in {i_after_examples(batch_index, n)} :
       \E preds \in {predictions + (IF p_args.target THEN n ELSE 0)} :
          /\ loop_i' = i
          /\ predictions' = preds
          /\ evaluated' =
                IF p_args.verbose /\ i % p_args.evaluate_every = 0
                THEN Append(evaluated,
                            [batch |-> batch_index, predictions |-> preds,
                             samples |-> p_args.batch_size * i])
                ELSE evaluated
          /\ log_file' =
                log_file
                \o (IF p_args.verbose /\ batch_index = 0
                    THEN <<[kind |-> "Examples", n |-> n]>> ELSE <<>>)
                \o (IF p_args.verbose /\ i % p_args.evaluate_every = 0
                    THEN <<[kind |-> "samples", n |-> p_args.batch_size * i]>>
                    ELSE <<>>)
    /\ batch_index' = batch_index + 1
    /\ UNCHANGED <<dvars, p_args, dataloader, p_pc>>

\* The dataloader is exhausted: the final evaluation and its log entry.
PromptingDone ==
    /\ p_pc = "loop"
    /\ batch_index * p_args.batch_size >= dataloader
    /\ p_pc' = "done"
    /\ log_file' =
          log_file
          \o (IF p_args.verbose
              THEN <<[kind |-> "Results", n |-> predictions]>> ELSE <<>>)
    /\ UNCHANGED <<dvars, p_args, dataloader, batch_index, loop_i,
                   predictions, evaluated>>

NextPrompting ==
    \/ PromptBatch
    \/ PromptingDone

SpecPrompting == InitPrompting /\ [][NextPrompting]_vars

\* The batches followed by an intermediate evaluation, so far.
EvaluatedBatches == {evaluated[k].batch : k \in 1..Len(evaluated)}

\* C11: with verbose enabled the intermediate evaluation runs after batch i
\* exactly when i is a multiple of evaluate_every, the first batch (i = 0)
\* included, and the sample count it logs is batch_size times that index.
C11_EvaluatesEveryNBatches ==
    (p_pc \in {"loop", "done"} /\ p_args.verbose) =>
        /\ \A b \in 0..(batch_index - 1) :
              b \in EvaluatedBatches <=> b % p_args.evaluate_every = 0
        /\ \A k \in 1..Len(evaluated) :
              evaluated[k].samples = p_args.batch_size * evaluated[k].batch

====
